---- MODULE Spec2Model ----
(***************************************************************************)
(* The vote routes of the forum backend (forum-backend/routes/votes.js):   *)
(*   POST /thread/:threadId                  vote on a thread              *)
(*   POST /thread/:threadId/reply/:replyId   vote on a nested reply        *)
(* Each handler is an async function; its awaits (Thread.findById,         *)
(* thread.save, User.findByIdAndUpdate) are the points where the handlers  *)
(* of other requests may run, so every handler is split at its awaits.     *)
(***************************************************************************)
EXTENDS Integers, Sequences, FiniteSets, TLC

(* Bound of the model: the number of requests received in one behaviour. *)
MaxRequests == 2

(* Bound of the model: the largest number of replies of a drawn reply tree. *)
MaxNodes == 3

Users == {"u1", "u2"}
StoredIds == {"t1", "t2"}
ThreadIds == StoredIds \cup {"t9"}
ReplyThreadIds == {"t1", "t9"}
RequestReplyIds == {"a", "d", "z"}
Types == {"upvote", "downvote"}
BodyTypes == Types \cup {"bogus"}
Reqs == {"p", "q"}

VARIABLES
  db,                 \* the threads collection: thread id -> persisted document
  rep,                \* the users collection: user id -> stored reputation
  pc,                 \* each request's position in its handler
  req,                \* each request's params, body and authenticated user
  thread,             \* each handler's local `thread` (the loaded document)
  existingVoteIndex,  \* the thread handler's local `existingVoteIndex`
  voteCount,          \* the thread handler's local `voteCount`
  resp,               \* the response the current step sent, per request
  started,            \* number of requests received so far
  alone,              \* observer: no other request has stepped since this one began
  before              \* observer: the persisted thread and reputation when the request began

vars == <<db, rep, pc, req, thread, existingVoteIndex, voteCount, resp,
          started, alone, before>>

(* ------------------------------ documents ------------------------------ *)

Null == [null |-> TRUE]

Reply(id, votes, replies) == [id |-> id, votes |-> votes, replies |-> replies]

NewThread(author, votes, replies) ==
  [author |-> author, votes |-> votes, replies |-> replies]

(* Reply A has children [B, C]; C has child [D]; each reply with these votes. *)
TreeABCD(votes) ==
  << Reply("a", votes, << Reply("b", votes, <<>>),
                          Reply("c", votes, << Reply("d", votes, <<>>) >>) >>) >>

(* The votes cast before the first request of a behaviour: none, or an      *)
(* upvote of u2 on the first thread and on each of its replies.              *)
InitVotes == {<<>>, << [user |-> "u2", type |-> "upvote"] >>}

NoReq == [kind |-> "none", tid |-> "t9", rid |-> "z", user |-> "u1", type |-> "bogus"]

NoResp == [status |-> 0, message |-> "", hasVoteCount |-> FALSE, voteCount |-> 0,
           userVote |-> "undefined"]

NoBefore == [votes |-> <<>>, replies |-> <<>>, rep |-> 0]

(* An id's toString(): the hexadecimal form of an ObjectId, one string per id. *)
toString(id) == id

(* ----------------------------- collaborators --------------------------- *)

(* Thread.findById: the stored document, or null. *)
findById(store, threadId) ==
  IF threadId \in DOMAIN store THEN store[threadId] ELSE Null

(* thread.save(): the whole document replaces the stored one. *)
save(store, threadId, doc) == [store EXCEPT ![threadId] = doc]

(* User.findByIdAndUpdate(id, {$set: {reputation: value}}) *)
findByIdAndUpdate(users, userId, value) ==
  IF userId \in DOMAIN users THEN [users EXCEPT ![userId] = value] ELSE users

(* ------------------------------ vote ledger ---------------------------- *)

RECURSIVE findIndexFrom(_, _, _)
findIndexFrom(votes, userId, i) ==
  IF i > Len(votes) THEN -1
  ELSE IF toString(votes[i].user) = toString(userId) THEN i - 1
  ELSE findIndexFrom(votes, userId, i + 1)

(* Array.prototype.findIndex on vote.user: 0-based index, -1 when absent. *)
findIndex(votes, userId) == findIndexFrom(votes, userId, 1)

(* splice that removes the first element, whatever the index. *)
spliceFirst(votes, index) == Tail(votes)

(* votes.splice(index, 1) with a 0-based index. *)
splice(votes, index) ==
  [i \in 1..(Len(votes) - 1) |-> IF i <= index THEN votes[i] ELSE votes[i + 1]]

(* votes.find(v => v.user === userId)?.type : the type, or undefined. *)
findType(votes, userId) ==
  LET i == findIndex(votes, userId)
  IN  IF i = -1 THEN "undefined" ELSE votes[i + 1].type

(* votes.filter(v => v.type === type).length *)
filterLength(votes, type) ==
  Cardinality({i \in 1..Len(votes) : votes[i].type = type})

Max0(n) == IF n > 0 THEN n ELSE 0

(* reputation without the floor at zero. *)
reputationNoFloor(count) == count * 10

(* Math.max(0, voteCount * 10) *)
reputation(count) == Max0(count * 10)

(* voteThread without the lookup of an existing vote: every vote is pushed. *)
voteThreadAlwaysPush(votes, userId, type) ==
  Append(votes, [user |-> userId, type |-> type])

(* The thread handler's vote mutation. *)
voteThread(votes, userId, type) ==
  LET index == findIndex(votes, userId)
  IN  IF index # -1
      THEN IF votes[index + 1].type = type
           THEN splice(votes, index)
           ELSE [votes EXCEPT ![index + 1].type = type]
      ELSE Append(votes, [user |-> userId, type |-> type])

(* voteReply whose switch branch removes the vote instead of changing its type. *)
voteReplySwitchRemoves(votes, userId, voteType) ==
  LET index == findIndex(votes, userId)
  IN  IF index # -1
      THEN splice(votes, index)
      ELSE Append(votes, [user |-> userId, type |-> voteType])

(* The vote mutation inside findAndVoteReply. *)
voteReply(votes, userId, voteType) ==
  LET index == findIndex(votes, userId)
  IN  IF index # -1
      THEN IF votes[index + 1].type = voteType
           THEN splice(votes, index)
           ELSE [votes EXCEPT ![index + 1].type = voteType]
      ELSE Append(votes, [user |-> userId, type |-> voteType])

(* ------------------------------ reply tree ----------------------------- *)

(* The replies the search compares, as paths below the current level. *)
Below(i, visited) == [k \in DOMAIN visited |-> <<i>> \o visited[k]]

Deeper(m, n) == IF m >= n THEN m ELSE n

RECURSIVE findAndVoteReplyFromAlwaysRecurses(_, _, _, _, _)
(* The for-loop of findAndVoteReply without the test of replies.length: it *)
(* also calls itself on the empty replies of a leaf.                        *)
findAndVoteReplyFromAlwaysRecurses(replies, i, replyId, userId, voteType) ==
  IF i > Len(replies)
  THEN [found |-> FALSE, replies |-> replies, visited |-> <<>>, depth |-> 1]
  ELSE
    LET reply == replies[i] IN
    IF toString(reply.id) = replyId
    THEN [found |-> TRUE,
          replies |-> [replies EXCEPT ![i].votes = voteReply(reply.votes, userId, voteType)],
          visited |-> << <<i>> >>, depth |-> 1]
    ELSE
      LET sub == findAndVoteReplyFromAlwaysRecurses(reply.replies, 1, replyId, userId,
                                                    voteType)
      IN  IF sub.found
          THEN [found |-> TRUE, replies |-> [replies EXCEPT ![i].replies = sub.replies],
                visited |-> << <<i>> >> \o Below(i, sub.visited),
                depth |-> 1 + sub.depth]
          ELSE LET rest == findAndVoteReplyFromAlwaysRecurses(replies, i + 1, replyId,
                                                              userId, voteType)
               IN  [found |-> rest.found, replies |-> rest.replies,
                    visited |-> << <<i>> >> \o Below(i, sub.visited) \o rest.visited,
                    depth |-> Deeper(1 + sub.depth, rest.depth)]

RECURSIVE findAndVoteReplyFrom(_, _, _, _, _)
(* The for-loop of findAndVoteReply from its i-th reply on: whether a reply *)
(* was found and voted, and the replies as the loop leaves them; with them   *)
(* the replies whose id the loop compared, in the order of the comparisons,  *)
(* and the number of nested calls at the deepest point (this call is 1).     *)
findAndVoteReplyFrom(replies, i, replyId, userId, voteType) ==
  IF i > Len(replies)
  THEN [found |-> FALSE, replies |-> replies, visited |-> <<>>, depth |-> 1]
  ELSE
    LET reply == replies[i] IN
    IF toString(reply.id) = replyId
    THEN [found |-> TRUE,
          replies |-> [replies EXCEPT ![i].votes = voteReply(reply.votes, userId, voteType)],
          visited |-> << <<i>> >>, depth |-> 1]
    ELSE
      LET sub == IF Len(reply.replies) > 0
                 THEN findAndVoteReplyFrom(reply.replies, 1, replyId, userId, voteType)
                 ELSE [found |-> FALSE, replies |-> reply.replies, visited |-> <<>>,
                       depth |-> 0]
      IN  IF sub.found
          THEN [found |-> TRUE, replies |-> [replies EXCEPT ![i].replies = sub.replies],
                visited |-> << <<i>> >> \o Below(i, sub.visited),
                depth |-> 1 + sub.depth]
          ELSE LET rest == findAndVoteReplyFrom(replies, i + 1, replyId, userId, voteType)
               IN  [found |-> rest.found, replies |-> rest.replies,
                    visited |-> << <<i>> >> \o Below(i, sub.visited) \o rest.visited,
                    depth |-> Deeper(1 + sub.depth, rest.depth)]

RECURSIVE findAndVoteReplySiblingsFirst(_, _, _, _)
(* findAndVoteReply that tests all replies of a level before their children. *)
findAndVoteReplySiblingsFirst(replies, replyId, userId, voteType) ==
  LET here == {i \in DOMAIN replies : toString(replies[i].id) = replyId}
      sub == [i \in DOMAIN replies |->
                findAndVoteReplySiblingsFirst(replies[i].replies, replyId, userId, voteType)]
      below == {i \in DOMAIN replies : sub[i].found}
  IN  IF here # {}
      THEN LET i == CHOOSE k \in here : \A h \in here : k <= h
           IN  [found |-> TRUE,
                replies |-> [replies EXCEPT
                               ![i].votes = voteReply(replies[i].votes, userId, voteType)]]
      ELSE IF below # {}
      THEN LET i == CHOOSE k \in below : \A h \in below : k <= h
           IN  [found |-> TRUE, replies |-> [replies EXCEPT ![i].replies = sub[i].replies]]
      ELSE [found |-> FALSE, replies |-> replies]

findAndVoteReply(replies, replyId, userId, voteType) ==
  findAndVoteReplyFrom(replies, 1, replyId, userId, voteType)

(* ------------------------------- responses ----------------------------- *)

Json(status, message) ==
  [status |-> status, message |-> message, hasVoteCount |-> FALSE, voteCount |-> 0,
   userVote |-> "undefined"]

ValidationError == Json(400, "Vote type must be upvote or downvote")
ThreadNotFound == Json(404, "Thread not found")
ReplyNotFound == Json(404, "Reply not found")
ServerError == Json(500, "Server error")
ReplyVoteRecorded == Json(200, "Vote recorded successfully")

(* res.json({message, voteCount, userVote}) of the thread handler. *)
ThreadVoteRecorded(count, index, votes, userId) ==
  [status |-> 200, message |-> "Vote recorded successfully", hasVoteCount |-> TRUE,
   voteCount |-> count,
   userVote |-> IF index # -1 THEN findType(votes, userId) ELSE "null"]

(* ------------------------------- observers ----------------------------- *)

Snapshot(threadId) ==
  IF threadId \in DOMAIN db
  THEN [votes |-> db[threadId].votes, replies |-> db[threadId].replies,
        rep |-> rep[db[threadId].author]]
  ELSE NoBefore

(* ------------------------------ handler steps -------------------------- *)

(* A request is received by the first handler instance that is not running. *)
Free(r) ==
  /\ pc[r] = "idle"
  /\ r = "p" \/ pc["p"] # "idle"

(* Request r is received: its locals are fresh, no response is sent yet. *)
Begins(r, request, doc) ==
  /\ pc' = [pc EXCEPT ![r] = "found"]
  /\ req' = [req EXCEPT ![r] = request]
  /\ thread' = [thread EXCEPT ![r] = doc]
  /\ existingVoteIndex' = [existingVoteIndex EXCEPT ![r] = -1]
  /\ voteCount' = [voteCount EXCEPT ![r] = 0]
  /\ resp' = [q \in Reqs |-> NoResp]
  /\ before' = [before EXCEPT ![r] = Snapshot(request.tid)]
  /\ alone' = [q \in Reqs |-> q = r]

(* The handler of r goes on to position p with locals doc, index, count. *)
Continues(r, p, doc, index, count) ==
  /\ pc' = [pc EXCEPT ![r] = p]
  /\ thread' = [thread EXCEPT ![r] = doc]
  /\ existingVoteIndex' = [existingVoteIndex EXCEPT ![r] = index]
  /\ voteCount' = [voteCount EXCEPT ![r] = count]
  /\ alone' = [q \in Reqs |-> q = r /\ alone[r]]
  /\ resp' = [q \in Reqs |-> NoResp]
  /\ UNCHANGED <<req, before>>

(* The handler of r sends response j and returns: its locals are gone. *)
Ends(r, j) ==
  /\ pc' = [pc EXCEPT ![r] = "idle"]
  /\ resp' = [q \in Reqs |-> IF q = r THEN j ELSE NoResp]
  /\ req' = [req EXCEPT ![r] = NoReq]
  /\ thread' = [thread EXCEPT ![r] = Null]
  /\ existingVoteIndex' = [existingVoteIndex EXCEPT ![r] = -1]
  /\ voteCount' = [voteCount EXCEPT ![r] = 0]
  /\ before' = [before EXCEPT ![r] = NoBefore]
  /\ alone' = [q \in Reqs |-> FALSE]

(* ----------------------------- initial state --------------------------- *)

InitRequests ==
  /\ pc = [r \in Reqs |-> "idle"]
  /\ req = [r \in Reqs |-> NoReq]
  /\ thread = [r \in Reqs |-> Null]
  /\ existingVoteIndex = [r \in Reqs |-> -1]
  /\ voteCount = [r \in Reqs |-> 0]
  /\ resp = [r \in Reqs |-> NoResp]
  /\ started = 0
  /\ alone = [r \in Reqs |-> FALSE]
  /\ before = [r \in Reqs |-> NoBefore]

(* Two threads of author u1. The second has no votes and no replies; the    *)
(* first has the replies A[B, C[D]] and the votes cast so far, and u1's      *)
(* reputation is the one the last vote on the first thread stored.           *)
Init ==
  /\ \E votes \in InitVotes :
       /\ db = [t \in StoredIds |->
                 IF t = "t1" THEN NewThread("u1", votes, TreeABCD(votes))
                 ELSE NewThread("u1", <<>>, <<>>)]
       /\ rep = [u \in Users |-> IF u = "u1" THEN reputation(
                    filterLength(votes, "upvote") - filterLength(votes, "downvote"))
                  ELSE 0]
  /\ InitRequests

(* ----------------------- POST /thread/:threadId ------------------------ *)

(* Validation of the body, then the awaited Thread.findById. *)
ThreadFind(r, threadId, user, type) ==
  /\ Free(r)
  /\ started < MaxRequests
  /\ started' = started + 1
  /\ IF type \notin Types
     THEN Ends(r, ValidationError)
     ELSE Begins(r, [kind |-> "thread", tid |-> threadId, rid |-> "none",
                     user |-> user, type |-> type],
                 findById(db, threadId))
  /\ UNCHANGED <<db, rep>>

(* ThreadMutate without the null check: reading thread.votes of null throws, *)
(* and the catch block answers 500.                                          *)
ThreadMutateNoNullCheck(r) ==
  /\ pc[r] = "found"
  /\ req[r].kind = "thread"
  /\ IF thread[r] = Null
     THEN Ends(r, ServerError)
     ELSE Continues(r, "mutated",
            [thread[r] EXCEPT !.votes = voteThread(thread[r].votes, req[r].user, req[r].type)],
            findIndex(thread[r].votes, req[r].user),
            voteCount[r])
  /\ UNCHANGED <<db, rep, started>>

(* The null check and the mutation of thread.votes, up to the call of save. *)
ThreadMutate(r) ==
  /\ pc[r] = "found"
  /\ req[r].kind = "thread"
  /\ IF thread[r] = Null
     THEN Ends(r, ThreadNotFound)
     ELSE Continues(r, "mutated",
            [thread[r] EXCEPT !.votes = voteThread(thread[r].votes, req[r].user, req[r].type)],
            findIndex(thread[r].votes, req[r].user),
            voteCount[r])
  /\ UNCHANGED <<db, rep, started>>

(* ThreadSave that applies the vote to the document stored at the time of   *)
(* the write instead of writing the document loaded earlier.                 *)
ThreadSaveOnStored(r) ==
  /\ pc[r] = "mutated"
  /\ req[r].kind = "thread"
  /\ \E ok \in BOOLEAN :
       IF ok
       THEN /\ db' = save(db, req[r].tid,
                   [db[req[r].tid] EXCEPT
                      !.votes = voteThread(db[req[r].tid].votes, req[r].user, req[r].type)])
            /\ Continues(r, "saved", thread[r], existingVoteIndex[r], voteCount[r])
       ELSE /\ Ends(r, ServerError)
            /\ UNCHANGED db
  /\ UNCHANGED <<rep, started>>

(* ThreadSave that goes on to the reputation without the document written. *)
ThreadSaveSkips(r) ==
  /\ pc[r] = "mutated"
  /\ req[r].kind = "thread"
  /\ \E ok \in BOOLEAN :
       IF ok
       THEN Continues(r, "saved", thread[r], existingVoteIndex[r], voteCount[r])
       ELSE Ends(r, ServerError)
  /\ UNCHANGED <<db, rep, started>>

(* await thread.save(): the document is written, or the call throws. *)
ThreadSave(r) ==
  /\ pc[r] = "mutated"
  /\ req[r].kind = "thread"
  /\ \E ok \in BOOLEAN :
       IF ok
       THEN /\ db' = save(db, req[r].tid, thread[r])
            /\ Continues(r, "saved", thread[r], existingVoteIndex[r], voteCount[r])
       ELSE /\ Ends(r, ServerError)
            /\ UNCHANGED db
  /\ UNCHANGED <<rep, started>>

(* voteCount, then await User.findByIdAndUpdate: written, or the call throws. *)
ThreadReputation(r) ==
  /\ pc[r] = "saved"
  /\ LET count == filterLength(thread[r].votes, "upvote")
                  - filterLength(thread[r].votes, "downvote")
     IN  \E ok \in BOOLEAN :
           IF ok
           THEN /\ rep' = findByIdAndUpdate(rep, thread[r].author, reputation(count))
                /\ Continues(r, "updated", thread[r], existingVoteIndex[r], count)
           ELSE /\ Ends(r, ServerError)
                /\ UNCHANGED rep
  /\ UNCHANGED <<db, started>>

(* res.json of the thread handler. *)
ThreadRespond(r) ==
  /\ pc[r] = "updated"
  /\ Ends(r, ThreadVoteRecorded(voteCount[r], existingVoteIndex[r], thread[r].votes,
                                req[r].user))
  /\ UNCHANGED <<db, rep, started>>

(* ---------------- POST /thread/:threadId/reply/:replyId ---------------- *)

(* Validation of the body, then the awaited Thread.findById. *)
ReplyFind(r, threadId, replyId, user, type) ==
  /\ Free(r)
  /\ started < MaxRequests
  /\ started' = started + 1
  /\ IF type \notin Types
     THEN Ends(r, ValidationError)
     ELSE Begins(r, [kind |-> "reply", tid |-> threadId, rid |-> replyId,
                     user |-> user, type |-> type],
                 findById(db, threadId))
  /\ UNCHANGED <<db, rep>>

(* ReplyMutate that also applies the vote to the votes of the thread itself. *)
ReplyMutateAlsoVotesThread(r) ==
  /\ pc[r] = "found"
  /\ req[r].kind = "reply"
  /\ IF thread[r] = Null
     THEN Ends(r, ThreadNotFound)
     ELSE LET voted == findAndVoteReply(thread[r].replies, req[r].rid,
                                        toString(req[r].user), req[r].type)
          IN  IF ~voted.found
              THEN Ends(r, ReplyNotFound)
              ELSE Continues(r, "mutated",
                     [thread[r] EXCEPT
                        !.replies = voted.replies,
                        !.votes = voteThread(thread[r].votes, req[r].user, req[r].type)],
                     existingVoteIndex[r], voteCount[r])
  /\ UNCHANGED <<db, rep, started>>

(* ReplyMutate that ignores the result of findAndVoteReply. *)
ReplyMutateIgnoresResult(r) ==
  /\ pc[r] = "found"
  /\ req[r].kind = "reply"
  /\ IF thread[r] = Null
     THEN Ends(r, ThreadNotFound)
     ELSE LET voted == findAndVoteReply(thread[r].replies, req[r].rid,
                                        toString(req[r].user), req[r].type)
          IN  Continues(r, "mutated", [thread[r] EXCEPT !.replies = voted.replies],
                        existingVoteIndex[r], voteCount[r])
  /\ UNCHANGED <<db, rep, started>>

(* The null check and findAndVoteReply, up to the call of save. *)
ReplyMutate(r) ==
  /\ pc[r] = "found"
  /\ req[r].kind = "reply"
  /\ IF thread[r] = Null
     THEN Ends(r, ThreadNotFound)
     ELSE LET voted == findAndVoteReply(thread[r].replies, req[r].rid,
                                        toString(req[r].user), req[r].type)
          IN  IF ~voted.found
              THEN Ends(r, ReplyNotFound)
              ELSE Continues(r, "mutated", [thread[r] EXCEPT !.replies = voted.replies],
                             existingVoteIndex[r], voteCount[r])
  /\ UNCHANGED <<db, rep, started>>

(* ReplySave that also stores the author's reputation, as the thread handler does. *)
ReplySaveStoresReputation(r) ==
  /\ pc[r] = "mutated"
  /\ req[r].kind = "reply"
  /\ \E ok \in BOOLEAN :
       IF ok
       THEN /\ db' = save(db, req[r].tid, thread[r])
            /\ rep' = findByIdAndUpdate(rep, thread[r].author,
                 reputation(filterLength(thread[r].votes, "upvote")
                            - filterLength(thread[r].votes, "downvote")))
            /\ Continues(r, "replied", thread[r], existingVoteIndex[r], voteCount[r])
       ELSE /\ Ends(r, ServerError)
            /\ UNCHANGED <<db, rep>>
  /\ UNCHANGED started

(* await thread.save(): the document is written, or the call throws. *)
ReplySave(r) ==
  /\ pc[r] = "mutated"
  /\ req[r].kind = "reply"
  /\ \E ok \in BOOLEAN :
       IF ok
       THEN /\ db' = save(db, req[r].tid, thread[r])
            /\ Continues(r, "replied", thread[r], existingVoteIndex[r], voteCount[r])
       ELSE /\ Ends(r, ServerError)
            /\ UNCHANGED db
  /\ UNCHANGED <<rep, started>>

(* res.json of the reply handler. *)
ReplyRespond(r) ==
  /\ pc[r] = "replied"
  /\ Ends(r, ReplyVoteRecorded)
  /\ UNCHANGED <<db, rep, started>>

(* ------------------------------ specification -------------------------- *)

ThreadStep(r) ==
  \/ \E t \in ThreadIds, u \in Users, ty \in BodyTypes : ThreadFind(r, t, u, ty)
  \/ ThreadMutate(r)
  \/ ThreadSave(r)
  \/ ThreadReputation(r)
  \/ ThreadRespond(r)

ReplyStep(r) ==
  \/ \E t \in ReplyThreadIds, i \in RequestReplyIds, u \in Users, ty \in BodyTypes :
       ReplyFind(r, t, i, u, ty)
  \/ ReplyMutate(r)
  \/ ReplySave(r)
  \/ ReplyRespond(r)

Next == \E r \in Reqs : ThreadStep(r) \/ ReplyStep(r)

Spec == Init /\ [][Next]_vars

(* -------------- the reply search over all small reply trees ------------- *)

TreeIds == {"a", "d"}

RECURSIVE Forests(_)
(* The reply trees of exactly n replies with ids of TreeIds and no votes. *)
Forests(n) ==
  IF n = 0 THEN {<<>>}
  ELSE UNION {{<< Reply(id, <<>>, below) >> \o rest :
                 id \in TreeIds, below \in Forests(k - 1), rest \in Forests(n - k)}
              : k \in 1..n}

(* The first thread has any reply tree of at most MaxNodes replies. *)
InitTree ==
  /\ \E n \in 0..MaxNodes : \E tree \in Forests(n) :
       db = [t \in StoredIds |-> NewThread("u1", <<>>, IF t = "t1" THEN tree ELSE <<>>)]
  /\ rep = [u \in Users |-> 0]
  /\ InitRequests

(* Reply votes on the first thread, one request at a time. *)
NextTree ==
  \/ \E i \in RequestReplyIds, u \in Users, ty \in Types : ReplyFind("p", "t1", i, u, ty)
  \/ ReplyMutate("p")
  \/ ReplySave("p")
  \/ ReplyRespond("p")

SpecTree == InitTree /\ [][NextTree]_vars

(* --------------- requests whose awaited calls all return --------------- *)

(* The continuation of handler r after the awaited call it is waiting for. *)
Continuation(r) ==
  \/ ThreadMutate(r)
  \/ ThreadSave(r)
  \/ ThreadReputation(r)
  \/ ThreadRespond(r)
  \/ ReplyMutate(r)
  \/ ReplySave(r)
  \/ ReplyRespond(r)

(* Every awaited call settles (resolves or rejects) and the event loop then *)
(* runs the continuation; no request has to arrive.                          *)
Fairness == \A r \in Reqs : WF_vars(Continuation(r))

FairTypes == {"upvote", "bogus"}

(* Requests of one user on the first thread or on a thread that is not   *)
(* stored, with a valid or an invalid body, one request at a time.        *)
NextFair ==
  \/ \E t \in ReplyThreadIds, ty \in FairTypes : ThreadFind("p", t, "u1", ty)
  \/ \E t \in ReplyThreadIds, i \in RequestReplyIds, ty \in FairTypes :
       ReplyFind("p", t, i, "u1", ty)
  \/ Continuation("p")

SpecFair == InitTree /\ [][NextFair]_vars /\ Fairness

(* ------------- consecutive votes of one user on one thread -------------- *)

(* Both threads are created alike; only the first one is voted on. *)
InitToggle ==
  /\ \E votes \in InitVotes :
       /\ db = [t \in StoredIds |-> NewThread("u1", votes, TreeABCD(votes))]
       /\ rep = [u \in Users |-> IF u = "u1" THEN reputation(
                    filterLength(votes, "upvote") - filterLength(votes, "downvote"))
                  ELSE 0]
  /\ InitRequests

(* Votes of u1 on the first thread and on its replies, one request at a time. *)
NextToggle ==
  \/ \E ty \in Types : ThreadFind("p", "t1", "u1", ty)
  \/ ThreadMutate("p")
  \/ ThreadSave("p")
  \/ ThreadReputation("p")
  \/ ThreadRespond("p")
  \/ \E i \in RequestReplyIds, ty \in Types : ReplyFind("p", "t1", i, "u1", ty)
  \/ ReplyMutate("p")
  \/ ReplySave("p")
  \/ ReplyRespond("p")

SpecToggle == InitToggle /\ [][NextToggle]_vars

(* ======================= properties of the vote routes ================== *)

(* The entries of user u in a vote set, in order. *)
EntriesOf(votes, u) == SelectSeq(votes, LAMBDA v : v.user = u)

(* The entries of the users other than u, in order. *)
OthersOf(votes, u) == SelectSeq(votes, LAMBDA v : v.user # u)

OnePerUser(votes) ==
  \A i, j \in DOMAIN votes : votes[i].user = votes[j].user => i = j

(* count(upvote) - count(downvote) *)
NetScore(votes) ==
  Len(SelectSeq(votes, LAMBDA v : v.type = "upvote"))
  - Len(SelectSeq(votes, LAMBDA v : v.type = "downvote"))

RECURSIVE VoteSetsOf(_)
(* The vote sets of all replies of a reply tree, at any depth. *)
VoteSetsOf(replies) ==
  UNION {{replies[i].votes} \cup VoteSetsOf(replies[i].replies) : i \in DOMAIN replies}

RECURSIVE IdsOf(_)
(* The ids of all replies of a reply tree, at any depth. *)
IdsOf(replies) ==
  UNION {{replies[i].id} \cup IdsOf(replies[i].replies) : i \in DOMAIN replies}

RECURSIVE PathsFrom(_, _)
(* The paths (child positions from the root) of the replies from the i-th  *)
(* on, in pre-order: a reply, then its subtree, then its next sibling.     *)
PathsFrom(replies, i) ==
  IF i > Len(replies) THEN <<>>
  ELSE LET below == PathsFrom(replies[i].replies, 1)
       IN  << <<i>> >> \o [k \in DOMAIN below |-> <<i>> \o below[k]]
           \o PathsFrom(replies, i + 1)

PreOrder(replies) == PathsFrom(replies, 1)

RECURSIVE NodeAt(_, _)
NodeAt(replies, path) ==
  IF Len(path) = 1 THEN replies[path[1]]
  ELSE NodeAt(replies[path[1]].replies, Tail(path))

(* The path of the first reply with this id in pre-order, <<>> if none. *)
FirstPath(replies, id) ==
  LET paths == PreOrder(replies)
      hits == {k \in DOMAIN paths : NodeAt(replies, paths[k]).id = id}
  IN  IF hits = {} THEN <<>>
      ELSE paths[CHOOSE k \in hits : \A h \in hits : k <= h]

(* The rule of a vote by u of type t, from vote set pre to vote set post. *)
VoteRule(pre, post, u, t) ==
  /\ OthersOf(post, u) = OthersOf(pre, u)
  /\ EntriesOf(pre, u) = <<>> => EntriesOf(post, u) = << [user |-> u, type |-> t] >>
  /\ EntriesOf(pre, u) # <<>> /\ EntriesOf(pre, u)[1].type = t => EntriesOf(post, u) = <<>>
  /\ EntriesOf(pre, u) # <<>> /\ EntriesOf(pre, u)[1].type # t
       => EntriesOf(post, u) = << [user |-> u, type |-> t] >>

(* C1: in every reachable state, the persisted vote set of every thread and *)
(* of every reply at any depth holds at most one vote entry per user.       *)
C1_OneVotePerUser ==
  \A t \in DOMAIN db :
    /\ OnePerUser(db[t].votes)
    /\ \A votes \in VoteSetsOf(db[t].replies) : OnePerUser(votes)

(* Two requests of the same user on the same thread interleaved: both loaded *)
(* before either saved, and both have saved.                                 *)
C1_Witness ==
  /\ pc["p"] = "saved" /\ pc["q"] = "saved"
  /\ req["p"].tid = req["q"].tid
  /\ req["p"].user = req["q"].user
  /\ db[req["p"].tid].votes # <<>>

(* C2: a vote by u of type t changes the target's vote set by the rule:     *)
(* no entry of u - (u, t) is added; entry of type t - it is removed; entry   *)
(* of the other type - its type becomes t; the other users' entries stay.    *)
(* The rule is the same for a thread target and for a reply target.          *)
C2_VoteRule ==
  [][\A r \in Reqs :
       /\ (ThreadMutate(r) /\ thread[r] # Null)
            => VoteRule(thread[r].votes, thread'[r].votes, req[r].user, req[r].type)
       /\ (ReplyMutate(r) /\ pc'[r] = "mutated")
            => LET path == FirstPath(thread[r].replies, req[r].rid)
               IN  VoteRule(NodeAt(thread[r].replies, path).votes,
                            NodeAt(thread'[r].replies, path).votes,
                            req[r].user, req[r].type)]_vars

(* A reply vote switches u's persisted vote to the other type, next to the   *)
(* entry of another user.                                                    *)
C2_Witness ==
  \E r \in Reqs :
    /\ pc[r] = "mutated" /\ req[r].kind = "reply"
    /\ LET path == FirstPath(thread[r].replies, req[r].rid)
           old == NodeAt(db[req[r].tid].replies, path).votes
           new == NodeAt(thread[r].replies, path).votes
       IN  /\ Len(old) = 2 /\ Len(new) = 2
           /\ old[1].user # req[r].user
           /\ old[2].user = req[r].user
           /\ old[2].type # req[r].type
           /\ new[2].type = req[r].type

(* The vote of user u in a vote set: its type, or null. *)
UserVote(votes, u) ==
  IF EntriesOf(votes, u) = <<>> THEN "null" ELSE EntriesOf(votes, u)[1].type

(* C3: the userVote a successful thread vote returns is the user's vote in  *)
(* the resulting vote set: the desired type after an insert or a switch,     *)
(* null after a toggle-off.                                                  *)
C3_UserVoteReturned ==
  [][\A r \in Reqs :
       ThreadRespond(r) => resp'[r].userVote = UserVote(thread[r].votes, req[r].user)]_vars

(* The vote set of the node a request targets, in the handler's document. *)
TargetVotes(r) ==
  IF req[r].kind = "thread" THEN thread[r].votes
  ELSE NodeAt(thread[r].replies, FirstPath(thread[r].replies, req[r].rid)).votes

(* C4: every successful vote request, on a thread or on a reply, returns a  *)
(* net score: upvotes minus downvotes of the target after the mutation.      *)
C4_NetScoreReturned ==
  [][\A r \in Reqs :
       (ThreadRespond(r) \/ ReplyRespond(r))
         => /\ resp'[r].hasVoteCount
            /\ resp'[r].voteCount = NetScore(TargetVotes(r))]_vars

(* C5: when a thread vote completes successfully with no step of another    *)
(* request between its load and its response, the stored reputation of the   *)
(* thread's author is max(0, 10 * net score of the persisted vote set).      *)
C5_ReputationDerived ==
  [][\A r \in Reqs :
       (ThreadRespond(r) /\ alone[r])
         => LET t == req[r].tid
            IN  rep'[db'[t].author] = Max0(10 * NetScore(db'[t].votes))]_vars

(* A thread vote made the net score negative: the author's reputation,      *)
(* stored as 10 before, is stored as 0.                                      *)
C5_Witness ==
  \E r \in Reqs :
    /\ pc[r] = "updated" /\ alone[r]
    /\ voteCount[r] = -1
    /\ before[r].rep = 10
    /\ rep[thread[r].author] = 0
    /\ db[req[r].tid].votes = thread[r].votes

(* C6: no step of a reply vote request, whatever its outcome, changes the   *)
(* stored reputation of any user.                                            *)
C6_ReplyVoteKeepsReputation ==
  [][(\E u \in Users : rep'[u] # rep[u]) => \A r \in Reqs : ~ReplyStep(r)]_vars

(* A reply vote was saved that makes the reply's net score negative, while  *)
(* the thread author's reputation stays 10.                                  *)
C6_Witness ==
  \E r \in Reqs :
    /\ pc[r] = "replied"
    /\ NetScore(TargetVotes(r)) = -1
    /\ NodeAt(db[req[r].tid].replies, FirstPath(thread[r].replies, req[r].rid)).votes
         = TargetVotes(r)
    /\ rep[thread[r].author] = 10

(* C8: a vote request with a valid type whose thread id matches no stored   *)
(* thread is answered 404 "Thread not found" at its first step after the     *)
(* load, and none of its steps changes a stored thread or a reputation.      *)
C8_ThreadNotFound ==
  [][\A r \in Reqs :
       /\ \A t \in ThreadIds \ DOMAIN db :
            ((\E u \in Users, ty \in Types : ThreadFind(r, t, u, ty))
             \/ (\E i \in RequestReplyIds, u \in Users, ty \in Types : ReplyFind(r, t, i, u, ty)))
              => /\ pc'[r] = "found" /\ thread'[r] = Null
                 /\ db' = db /\ rep' = rep
       /\ ((ThreadMutate(r) \/ ReplyMutate(r)) /\ req[r].tid \notin DOMAIN db)
            => /\ pc'[r] = "idle"
               /\ resp'[r] = ThreadNotFound
               /\ db' = db /\ rep' = rep]_vars

(* A request on a thread id that is not stored was answered 404. *)
C8_Witness ==
  \E r \in Reqs : pc[r] = "idle" /\ resp[r] = ThreadNotFound /\ started > 0

(* C9: a reply vote on a stored thread whose reply id is the id of no reply *)
(* of the tree is answered 404 "Reply not found" and ends there: nothing is  *)
(* saved, and the stored threads are unchanged.                              *)
C9_ReplyNotFound ==
  [][\A r \in Reqs :
       (ReplyMutate(r) /\ thread[r] # Null /\ req[r].rid \notin IdsOf(thread[r].replies))
         => /\ pc'[r] = "idle"
            /\ resp'[r] = ReplyNotFound
            /\ db' = db]_vars

(* A reply vote on a stored thread was answered 404 "Reply not found". *)
C9_Witness ==
  \E r \in Reqs : pc[r] = "idle" /\ resp[r] = ReplyNotFound

(* C10: a thread vote that ends with an error response, with no step of     *)
(* another request since it began, leaves the persisted vote set of its      *)
(* thread and the stored reputation of the author as they were before it.    *)
C10_AllOrNothing ==
  [][\A r \in Reqs :
       (/\ ThreadStep(r)
        /\ req[r].kind = "thread" /\ alone[r]
        /\ req[r].tid \in DOMAIN db
        /\ pc'[r] = "idle" /\ resp'[r].status # 200)
         => /\ db'[req[r].tid].votes = before[r].votes
            /\ rep'[db'[req[r].tid].author] = before[r].rep]_vars

(* C7: a reply vote finds its target by depth-first pre-order search: it    *)
(* succeeds exactly when some reply at any depth has the id, and the one     *)
(* reply whose vote set it changes is the first with that id in pre-order.   *)
C7_PreOrderLocate ==
  [][\A r \in Reqs :
       (ReplyMutate(r) /\ thread[r] # Null)
         => LET pre == thread[r].replies
                path == FirstPath(pre, req[r].rid)
            IN  /\ (pc'[r] = "mutated") <=> (req[r].rid \in IdsOf(pre))
                /\ (pc'[r] = "mutated")
                     => LET post == thread'[r].replies
                        IN  /\ PreOrder(post) = PreOrder(pre)
                            /\ \A k \in DOMAIN PreOrder(pre) :
                                 LET q == PreOrder(pre)[k]
                                 IN  /\ NodeAt(post, q).id = NodeAt(pre, q).id
                                     /\ (NodeAt(post, q).votes # NodeAt(pre, q).votes)
                                          <=> (q = path)]_vars

(* The vote went to a reply below the first top-level reply although a      *)
(* later top-level reply has the same id.                                    *)
C7_Witness ==
  /\ pc["p"] = "mutated"
  /\ LET pre == db["t1"].replies
         post == thread["p"].replies
         path == FirstPath(pre, req["p"].rid)
     IN  /\ Len(path) > 1
         /\ \E i \in DOMAIN pre : pre[i].id = req["p"].rid /\ i > path[1]
         /\ NodeAt(post, path).votes # NodeAt(pre, path).votes

(* The vote set of the node a request targets, in a document. *)
VotesOfTarget(doc, request) ==
  IF request.kind = "thread" THEN doc.votes
  ELSE NodeAt(doc.replies, FirstPath(doc.replies, request.rid)).votes

(* Requests r and w, of different users, loaded the same stored thread, and *)
(* w has written it since: the stored thread is the document of w.           *)
SameSnapshot(r, w) ==
  /\ r # w
  /\ pc[r] = "mutated"
  /\ pc[w] \in {"saved", "updated", "replied"}
  /\ req[r].tid = req[w].tid
  /\ req[r].user # req[w].user
  /\ before[r].votes = before[w].votes
  /\ before[r].replies = before[w].replies
  /\ db[req[w].tid] = thread[w]

(* C11: vote requests on one thread are not isolated. When two requests of  *)
(* different users loaded the same snapshot and the first has persisted,     *)
(* the write of the second replaces the stored thread by its own document:   *)
(* its vote is stored, and the first writer's user has, in the first         *)
(* writer's target, the entries of the snapshot again (the vote is lost).    *)
C11_LostUpdate ==
  [][\A r, w \in Reqs :
       (/\ SameSnapshot(r, w)
        /\ ThreadSave(r) \/ ReplySave(r)
        /\ pc'[r] # "idle")
         => LET t == req[r].tid
            IN  /\ db'[t] = thread[r]
                /\ VotesOfTarget(db'[t], req[r]) # VotesOfTarget(before[r], req[r])
                /\ EntriesOf(VotesOfTarget(db'[t], req[w]), req[w].user)
                     = EntriesOf(VotesOfTarget(before[w], req[w]), req[w].user)
                /\ EntriesOf(VotesOfTarget(db[t], req[w]), req[w].user)
                     # EntriesOf(VotesOfTarget(before[w], req[w]), req[w].user)]_vars

(* Two thread votes of different users, neither of whom had voted, loaded   *)
(* the same thread; both have persisted and stored the reputation, and only  *)
(* their 200 responses remain. The stored vote set holds the vote of the     *)
(* second writer and not the vote of the first.                              *)
C11_Witness ==
  \E r, w \in Reqs :
    /\ r # w
    /\ pc[r] = "updated" /\ pc[w] = "updated"
    /\ req[r].tid = req[w].tid
    /\ req[r].user # req[w].user
    /\ before[r].votes = before[w].votes
    /\ existingVoteIndex[r] = -1 /\ existingVoteIndex[w] = -1
    /\ db[req[r].tid] = thread[r]
    /\ UserVote(db[req[r].tid].votes, req[r].user) = req[r].type
    /\ UserVote(db[req[r].tid].votes, req[w].user) = "null"
    /\ UserVote(thread[w].votes, req[w].user) = req[w].type

(* C12: when two thread votes on the same thread have interleaved and both  *)
(* have made their writes (only the responses remain), the stored            *)
(* reputation of the author is max(0, 10 * net score) of the vote set that   *)
(* was persisted last, the stored one.                                       *)
C12_FinalWriterView ==
  \A r, w \in Reqs :
    (/\ r # w
     /\ pc[r] = "updated" /\ pc[w] = "updated"
     /\ req[r].tid = req[w].tid)
      => LET t == req[r].tid
         IN  rep[db[t].author] = Max0(10 * NetScore(db[t].votes))

(* C13: toggle round trip. Under SpecToggle user u1 has no vote at first,   *)
(* requests run one at a time, and the second thread keeps the first one's   *)
(* original content. When u1 holds a vote of type t on a node (an earlier    *)
(* request of u1 with type t on that node succeeded) and the next request of *)
(* u1 on that node, again with type t, is saved, the node's persisted vote   *)
(* set and net score are exactly the original ones.                          *)
C13_ToggleRoundTrip ==
  [][(/\ ThreadSave("p") \/ ReplySave("p")
      /\ pc'["p"] # "idle"
      /\ UserVote(VotesOfTarget(db["t1"], req["p"]), "u1") = req["p"].type)
       => /\ VotesOfTarget(db'["t1"], req["p"]) = VotesOfTarget(db["t2"], req["p"])
          /\ NetScore(VotesOfTarget(db'["t1"], req["p"]))
               = NetScore(VotesOfTarget(db["t2"], req["p"]))
          /\ UserVote(VotesOfTarget(db'["t1"], req["p"]), "u1") = "null"]_vars

(* The second of two upvotes of u1 on reply d is saved: the vote set of d   *)
(* is the original one, the upvote of u2, again.                             *)
C13_Witness ==
  /\ pc["p"] = "replied"
  /\ started = 2
  /\ req["p"].rid = "d"
  /\ VotesOfTarget(before["p"], req["p"]) = VotesOfTarget(db["t2"], req["p"]) \o
       << [user |-> "u1", type |-> req["p"].type] >>
  /\ VotesOfTarget(db["t1"], req["p"]) = VotesOfTarget(db["t2"], req["p"])
  /\ Len(VotesOfTarget(db["t1"], req["p"])) = 1

RECURSIVE Depth(_)
(* The number of levels of a reply tree: 0 for no replies. *)
Depth(replies) ==
  IF replies = <<>> THEN 0
  ELSE LET below == {Depth(replies[i].replies) : i \in DOMAIN replies}
       IN  1 + CHOOSE d \in below : \A e \in below : e <= d

(* The first n elements of a sequence. *)
Prefix(seq, n) == [k \in 1..n |-> seq[k]]

(* The search of handler r, about to run on the replies it loaded. *)
Searches(r) ==
  /\ pc[r] = "found"
  /\ req[r].kind = "reply"
  /\ thread[r] # Null

(* The search visits each reply at most once, in pre-order, and stops at    *)
(* the first match or after the whole tree; its calls nest no deeper than    *)
(* the tree has levels.                                                      *)
SearchBounded(replies, replyId, userId, voteType) ==
  LET search == findAndVoteReply(replies, replyId, userId, voteType)
      paths == PreOrder(replies)
      hit == FirstPath(replies, replyId)
  IN  /\ \A j, k \in DOMAIN search.visited :
           search.visited[j] = search.visited[k] => j = k
      /\ Len(search.visited) <= Len(paths)
      /\ search.visited = Prefix(paths, Len(search.visited))
      /\ IF search.found
         THEN /\ search.visited[Len(search.visited)] = hit
              /\ \A k \in 1..(Len(search.visited) - 1) :
                   NodeAt(replies, search.visited[k]).id # replyId
         ELSE /\ search.visited = paths
              /\ hit = <<>>
      /\ search.depth <= Deeper(1, Depth(replies))

(* C16: a handler that runs sends its one response in the step in which it  *)
(* returns, and no other step sends one; its search is bounded as above; and *)
(* when every awaited call returns, every request that was received reaches  *)
(* that step.                                                                *)
C16_Terminates ==
  /\ [][\A r \in Reqs :
          (resp'[r] # NoResp)
            <=> \/ pc[r] # "idle" /\ pc'[r] = "idle"
                \/ pc[r] = "idle" /\ pc'[r] = "idle" /\ Free(r) /\ started' = started + 1]_vars
  /\ [](\A r \in Reqs :
          Searches(r) => SearchBounded(thread[r].replies, req[r].rid,
                                       toString(req[r].user), req[r].type))
  /\ \A r \in Reqs : (pc[r] # "idle") ~> (pc[r] = "idle" /\ resp[r] # NoResp)

(* A search for an id that no reply has went through a tree of three levels *)
(* and the handler has responded that the reply was not found.               *)
C16_Witness ==
  /\ resp["p"] = ReplyNotFound
  /\ pc["p"] = "idle"
  /\ Depth(db["t1"].replies) = 3
  /\ findAndVoteReply(db["t1"].replies, "z", "u1", "upvote").visited
       = PreOrder(db["t1"].replies)
  /\ findAndVoteReply(db["t1"].replies, "z", "u1", "upvote").depth = 3

====
